---------------------------- MODULE Spec2Model ----------------------------
(***************************************************************************)
(* A model of mbedcrypto's cipher engine (src/src/cipher.cpp): the         *)
(* streaming cipher context (cipher / cipher_impl), the ECB chunk driver   *)
(* (update_chunked), the one-shot crypt_engine and the AEAD calls.         *)
(*                                                                         *)
(* The primitive library (mbedtls) is an external collaborator.  It is     *)
(* modelled by a scaled-down cipher layer that follows mbedtls' cipher.c   *)
(* step by step (block buffering, padding, IV handling) over a toy keyed   *)
(* block permutation: bytes are 0..3 and a block has BlockSize bytes.      *)
(* On top of its nominal behaviour a data-processing primitive call may    *)
(* be given a Fault: a non-zero return code, or a declared written length  *)
(* shorter than nominal.  Claims about relaying "any code" or "the         *)
(* declared written length" are about such calls.                          *)
(***************************************************************************)
EXTENDS Integers, Sequences, FiniteSets, TLC

(***************************************************************************)
(* Bounds of the model.                                                    *)
(***************************************************************************)
BlockSize == 2      \* bytes per block (16 for AES); key and IV size too
MaxBlocks == 2      \* longest input, in blocks

MaxLen == MaxBlocks * BlockSize

(***************************************************************************)
(* mbedtls error codes (mbedtls/cipher.h, mbedtls/gcm.h).                  *)
(***************************************************************************)
MBEDTLS_ERR_CIPHER_FEATURE_UNAVAILABLE == -24704
MBEDTLS_ERR_CIPHER_BAD_INPUT_DATA == -24832
MBEDTLS_ERR_CIPHER_INVALID_PADDING == -25088
MBEDTLS_ERR_CIPHER_FULL_BLOCK_EXPECTED == -25216
MBEDTLS_ERR_CIPHER_AUTH_FAILED == -25344
MBEDTLS_ERR_GCM_BAD_INPUT == -20

(***************************************************************************)
(* Bytes and sequences of bytes.                                           *)
(***************************************************************************)
Byte == 0..3

Xor(a, b) == (((a % 2) + (b % 2)) % 2) + 2 * (((a \div 2) + (b \div 2)) % 2)

Take(s, n) == SubSeq(s, 1, n)

\* std::string::resize: cut, or grown with zero bytes
Resize(s, n) ==
    IF n <= Len(s) THEN SubSeq(s, 1, n)
    ELSE s \o SubSeq([i \in 1..(n - Len(s)) |-> 0], 1, n - Len(s))

Drop(s, n) == SubSeq(s, n + 1, Len(s))

\* (Take of a function constructor yields the sequence itself)
XorSeq(s, t) == Take([i \in 1..Len(s) |-> Xor(s[i], t[i])], Len(s))

Zeros(n) == Take([i \in 1..n |-> 0], n)

Max(a, b) == IF a > b THEN a ELSE b

Min(a, b) == IF a < b THEN a ELSE b

SumSeq(s) == LET RECURSIVE sum(_)
                 sum(i) == IF i = 0 THEN 0 ELSE s[i] + sum(i - 1)
             IN  sum(Len(s))

\* overwrite buf at offset off (0-based) with bytes; the buffer keeps its size
WriteAt(buf, off, bytes) ==
    Take([i \in 1..Len(buf) |->
            IF i > off /\ i <= off + Len(bytes) THEN bytes[i - off] ELSE buf[i]],
         Len(buf))

(***************************************************************************)
(* Algorithm registry (mbedtls_cipher_info_t): the cipher types modelled   *)
(* are the AES-128 family, whose key, block and IV sizes coincide.         *)
(***************************************************************************)
KnownTypes == {"aes_128_ecb", "aes_128_cbc", "aes_128_ctr", "aes_128_gcm"}

CipherTypes == KnownTypes \cup {"unknown"}

info_mode(type) ==
    CASE type = "aes_128_ecb" -> "ecb"
      [] type = "aes_128_cbc" -> "cbc"
      [] type = "aes_128_ctr" -> "ctr"
      [] type = "aes_128_gcm" -> "gcm"
      [] OTHER -> "none"

info_iv_size(mode) == IF mode = "ecb" THEN 0 ELSE BlockSize

info_key_len == BlockSize

info_variable_iv_len(mode) == mode = "gcm"

MBEDTLS_MAX_IV_LENGTH == BlockSize

(***************************************************************************)
(* The toy block cipher: a keyed permutation of the blocks.                *)
(***************************************************************************)
KeyVal(k) == SumSeq(k) % 4

RoundF(k, b) == (KeyVal(k) + b + 1) % 4

EncBlock(k, blk) ==
    Take([i \in 1..Len(blk) |->
            IF i < Len(blk) THEN blk[i + 1] ELSE Xor(blk[1], RoundF(k, blk[2]))],
         Len(blk))

DecBlock(k, blk) ==
    Take([i \in 1..Len(blk) |->
            IF i = 1 THEN Xor(blk[Len(blk)], RoundF(k, blk[1])) ELSE blk[i - 1]],
         Len(blk))

\* the block function of a context: setkey with DECRYPT installs the
\* decryption schedule for ECB and CBC only (CTR and GCM always encrypt)
BlockFn(c, blk) ==
    IF c.op = "dec" /\ c.mode \in {"ecb", "cbc"}
    THEN DecBlock(c.key, blk) ELSE EncBlock(c.key, blk)

(***************************************************************************)
(* mbedtls_cipher_context_t and the primitive operations.                  *)
(*   mode   : cipher_info->mode ("none" before setup)                      *)
(*   key,op : installed key and operation ("none" before setkey)           *)
(*   iv     : installed IV; the running chaining value / counter           *)
(*   pad    : padding mode in effect (CBC only)                            *)
(*   unproc : unprocessed_data[0..unprocessed_len) (CBC cache, CTR stream  *)
(*            block); off: CTR offset into the stream block                *)
(*   y, base, acc : the GCM context: counter block, tag mask and running   *)
(*            authentication state (set by gcm_starts, i.e. by update_ad)  *)
(***************************************************************************)
mbedtls_cipher_init ==
    [mode |-> "none", key |-> <<>>, op |-> "none", iv |-> <<>>,
     pad |-> "none", unproc |-> <<>>, off |-> 0,
     y |-> Zeros(BlockSize), base |-> Zeros(BlockSize), acc |-> 0]

\* setup binds the algorithm; CBC gets the build's default padding (PKCS7)
mbedtls_cipher_setup(c, mode) ==
    [ret |-> 0,
     ctx |-> [c EXCEPT !.mode = mode,
                       !.pad = IF mode = "cbc" THEN "pkcs7" ELSE "none"]]

mbedtls_cipher_setkey(c, k, op) ==
    IF Len(k) # info_key_len
    THEN [ret |-> MBEDTLS_ERR_CIPHER_BAD_INPUT_DATA, ctx |-> c]
    ELSE [ret |-> 0, ctx |-> [c EXCEPT !.key = k, !.op = op]]

mbedtls_cipher_set_iv(c, v) ==
    IF Len(v) > MBEDTLS_MAX_IV_LENGTH
    THEN [ret |-> MBEDTLS_ERR_CIPHER_FEATURE_UNAVAILABLE, ctx |-> c]
    ELSE LET actual == IF info_variable_iv_len(c.mode) THEN Len(v)
                       ELSE info_iv_size(c.mode)
         IN  IF actual > Len(v)
             THEN [ret |-> MBEDTLS_ERR_CIPHER_BAD_INPUT_DATA, ctx |-> c]
             ELSE [ret |-> 0, ctx |-> [c EXCEPT !.iv = Take(v, actual)]]

PaddingModes == {"pkcs7", "zeros", "none"}

mbedtls_cipher_set_padding_mode(c, p) ==
    IF c.mode # "cbc"
    THEN [ret |-> MBEDTLS_ERR_CIPHER_BAD_INPUT_DATA, ctx |-> c]
    ELSE [ret |-> 0, ctx |-> [c EXCEPT !.pad = p]]

mbedtls_cipher_reset(c) ==
    [ret |-> 0, ctx |-> [c EXCEPT !.unproc = <<>>, !.off = 0]]

(***************************************************************************)
(* Data-processing primitives.  Each returns [ret, out, ctx]: the return   *)
(* code, the bytes written (the declared written length is Len(out)) and   *)
(* the context afterwards.                                                 *)
(***************************************************************************)
\* ctx->iv is a zero-initialised array of which set_iv fills a prefix
IvBlock(c) ==
    Take([i \in 1..BlockSize |-> IF i <= Len(c.iv) THEN c.iv[i] ELSE 0],
         BlockSize)

RECURSIVE cbc_func(_, _)
cbc_func(c, data) ==
    IF Len(data) = 0 THEN [out |-> <<>>, ctx |-> c]
    ELSE LET blk == Take(data, BlockSize)
             \* o is the block produced; the rest is chained on it
             chain(o) ==
                 [cbc_func([c EXCEPT !.iv = IF c.op = "dec" THEN blk ELSE o],
                           Drop(data, BlockSize))
                  EXCEPT !.out = o \o @]
         IN  chain(IF c.op = "dec"
                   THEN XorSeq(DecBlock(c.key, blk), IvBlock(c))
                   ELSE EncBlock(c.key, XorSeq(blk, IvBlock(c))))

\* big-endian increment of a counter block
IncCounter(ctr) ==
    Take([i \in 1..Len(ctr) |->
            IF \A j \in (i + 1)..Len(ctr) : ctr[j] = 3
            THEN (ctr[i] + 1) % 4 ELSE ctr[i]],
         Len(ctr))

RECURSIVE ctr_func(_, _)
ctr_func(c, data) ==
    IF Len(data) = 0 THEN [out |-> <<>>, ctx |-> c]
    ELSE LET \* c1 is the context once the stream block is there; k bytes
             \* of data use up what is left of the stream block
             part(c1, k) ==
                 [ctr_func([c1 EXCEPT
                               !.off = (@ + k) % BlockSize,
                               !.unproc = IF (c1.off + k) % BlockSize = 0
                                          THEN <<>> ELSE @],
                           Drop(data, k))
                  EXCEPT !.out =
                      Take([i \in 1..k |->
                               Xor(data[i], c1.unproc[c1.off + i])], k) \o @]
             stream(c1) == part(c1, Min(Len(data), BlockSize - c1.off))
         IN  stream(IF c.off = 0
                    THEN [c EXCEPT !.unproc = EncBlock(c.key, IvBlock(c)),
                                   !.iv = IncCounter(IvBlock(c))]
                    ELSE c)

GHash(acc, bytes) ==
    LET RECURSIVE h(_)
        h(i) == IF i = 0 THEN acc ELSE (3 * h(i - 1) + bytes[i] + 1) % 4
    IN  h(Len(bytes))

mbedtls_gcm_starts(c, v, ad) ==
    IF Len(v) = 0 THEN [ret |-> MBEDTLS_ERR_GCM_BAD_INPUT, ctx |-> c]
    ELSE LET starts(y0) ==
                 [ret |-> 0,
                  ctx |-> [c EXCEPT !.y = y0, !.base = EncBlock(c.key, y0),
                                    !.acc = GHash(0, ad)]]
         IN  starts(Take([i \in 1..BlockSize |->
                             IF i <= Len(v) THEN v[i] ELSE 0], BlockSize))

\* every call starts on a fresh counter block, whatever the previous call left
RECURSIVE mbedtls_gcm_update(_, _)
mbedtls_gcm_update(c, data) ==
    IF Len(data) = 0 THEN [out |-> <<>>, ctx |-> c]
    ELSE LET p == Take(data, Min(Len(data), BlockSize))
             \* y1 is the next counter block, o the bytes produced with it
             rest(y1, o) ==
                 [mbedtls_gcm_update(
                      [c EXCEPT !.y = y1,
                                !.acc = GHash(@, IF c.op = "dec" THEN p ELSE o)],
                      Drop(data, Min(Len(data), BlockSize)))
                  EXCEPT !.out = o \o @]
             block(y1) == rest(y1, XorSeq(p, EncBlock(c.key, y1)))
         IN  block(IncCounter(c.y))

GcmTag(c) == Take([i \in 1..BlockSize |-> Xor(c.base[i], c.acc)], BlockSize)

Padded(c) == c.pad # "none"

Faults ==
    {[kind |-> "nominal", code |-> 0],
     [kind |-> "err", code |-> MBEDTLS_ERR_CIPHER_BAD_INPUT_DATA],
     [kind |-> "err", code |-> 1],
     [kind |-> "short", code |-> 0]}

Nominal == [kind |-> "nominal", code |-> 0]

\* the outcome of a primitive call under fault f: r is its nominal outcome
\* and c the context it was called on
WithFault(r, c, f) ==
    CASE f.kind = "err" -> [ret |-> f.code, out |-> <<>>, ctx |-> c]
      [] f.kind = "short" /\ r.ret = 0 /\ Len(r.out) > 0 ->
            [r EXCEPT !.out = Take(@, Len(@) - 1)]
      [] OTHER -> r

\* The "long" fault: a successful primitive call declares the most its caller
\* may assume, its input length plus one block (the excess bytes are zero).
Widest(r, input, f) ==
    IF f.kind = "long" /\ r.ret = 0 /\ Len(r.out) < Len(input) + BlockSize
    THEN [r EXCEPT !.out = @ \o Zeros(Len(input) + BlockSize - Len(@))]
    ELSE r

cbc_update(c, input) ==
    LET ul == Len(c.unproc)
    IN  IF \/ c.op = "dec" /\ Padded(c) /\ Len(input) <= BlockSize - ul
           \/ c.op = "dec" /\ ~Padded(c) /\ Len(input) < BlockSize - ul
           \/ c.op = "enc" /\ Len(input) < BlockSize - ul
        THEN [ret |-> 0, out |-> <<>>,
              ctx |-> [c EXCEPT !.unproc = @ \o input]]
        ELSE LET \* process cached data first
                 cl1  == IF ul # 0 THEN BlockSize - ul ELSE 0
                 \* cache the final, incomplete block (cl2 bytes of in2),
                 \* then process the remaining full blocks
                 full(r1, in2, cl2) ==
                     [cbc_func(r1.ctx, Take(in2, Len(in2) - cl2))
                      EXCEPT !.out = r1.out \o @,
                             !.ctx = [@ EXCEPT !.unproc =
                                          Drop(in2, Len(in2) - cl2)]]
                 cache(r1, in2) ==
                     full(r1, in2,
                          IF Len(in2) = 0 THEN 0
                          ELSE IF Len(in2) % BlockSize = 0 /\ c.op = "dec"
                                  /\ Padded(c)
                               THEN BlockSize ELSE Len(in2) % BlockSize)
             IN  [ret |-> 0] @@
                 cache(cbc_func(c, IF ul # 0 THEN c.unproc \o Take(input, cl1)
                                   ELSE <<>>),
                       Drop(input, cl1))

mbedtls_cipher_update(c, input, f) ==
    Widest(WithFault(
        CASE c.mode = "ecb" ->
                IF Len(input) # BlockSize
                THEN [ret |-> MBEDTLS_ERR_CIPHER_FULL_BLOCK_EXPECTED,
                      out |-> <<>>, ctx |-> c]
                ELSE [ret |-> 0, out |-> BlockFn(c, input), ctx |-> c]
          [] c.mode = "gcm" -> [ret |-> 0] @@ mbedtls_gcm_update(c, input)
          [] c.mode = "cbc" -> cbc_update(c, input)
          [] c.mode = "ctr" -> [ret |-> 0] @@ ctr_func(c, input)
          [] OTHER -> [ret |-> MBEDTLS_ERR_CIPHER_FEATURE_UNAVAILABLE,
                       out |-> <<>>, ctx |-> c],
        c, f), input, f)

add_padding(c) ==
    LET n == BlockSize - Len(c.unproc)
    IN  c.unproc \o Take([i \in 1..n |-> IF c.pad = "pkcs7" THEN n ELSE 0], n)

\* the data length get_padding finds in a decrypted last block, -1 if invalid
get_padding(c, blk) ==
    CASE c.pad = "pkcs7" ->
            LET n == blk[BlockSize]
            IN  IF n = 0 \/ n > BlockSize
                   \/ \E i \in (BlockSize - n + 1)..BlockSize : blk[i] # n
                THEN -1 ELSE BlockSize - n
      [] c.pad = "zeros" ->
            IF \A i \in 1..BlockSize : blk[i] = 0 THEN 0
            ELSE CHOOSE n \in 1..BlockSize :
                    blk[n] # 0 /\ \A i \in (n + 1)..BlockSize : blk[i] = 0
      [] OTHER -> BlockSize

mbedtls_cipher_finish(c) ==
    CASE c.mode \in {"ctr", "gcm"} -> [ret |-> 0, out |-> <<>>, ctx |-> c]
      [] c.mode = "ecb" ->
            IF Len(c.unproc) # 0
            THEN [ret |-> MBEDTLS_ERR_CIPHER_FULL_BLOCK_EXPECTED,
                  out |-> <<>>, ctx |-> c]
            ELSE [ret |-> 0, out |-> <<>>, ctx |-> c]
      [] c.mode = "cbc" ->
            IF c.op = "enc"
            THEN IF ~Padded(c)
                 THEN IF Len(c.unproc) # 0
                      THEN [ret |-> MBEDTLS_ERR_CIPHER_FULL_BLOCK_EXPECTED,
                            out |-> <<>>, ctx |-> c]
                      ELSE [ret |-> 0, out |-> <<>>, ctx |-> c]
                 ELSE [ret |-> 0] @@ cbc_func(c, add_padding(c))
            ELSE IF Len(c.unproc) # BlockSize
                 THEN IF ~Padded(c) /\ Len(c.unproc) = 0
                      THEN [ret |-> 0, out |-> <<>>, ctx |-> c]
                      ELSE [ret |-> MBEDTLS_ERR_CIPHER_FULL_BLOCK_EXPECTED,
                            out |-> <<>>, ctx |-> c]
                 ELSE LET \* r is the last block decrypted, n its data length
                          strip(r, n) ==
                              IF n < 0
                              THEN [ret |-> MBEDTLS_ERR_CIPHER_INVALID_PADDING,
                                    out |-> <<>>, ctx |-> r.ctx]
                              ELSE [ret |-> 0, out |-> Take(r.out, n),
                                    ctx |-> r.ctx]
                          last_block(r) == strip(r, get_padding(c, r.out))
                      IN  last_block(cbc_func(c, c.unproc))
      [] OTHER -> [ret |-> MBEDTLS_ERR_CIPHER_FEATURE_UNAVAILABLE,
                   out |-> <<>>, ctx |-> c]

\* the generic whole-buffer call: set_iv, reset, update, finish
mbedtls_cipher_crypt(c, v, input, f) ==
    LET finished(r3, r4) ==
            IF r4.ret # 0 THEN [r4 EXCEPT !.out = r3.out]
            ELSE [r4 EXCEPT !.out = r3.out \o @]
        updated(r3) ==
            IF r3.ret # 0 THEN [r3 EXCEPT !.out = <<>>]
            ELSE finished(r3, mbedtls_cipher_finish(r3.ctx))
        iv_set(r1) ==
            IF r1.ret # 0 THEN [ret |-> r1.ret, out |-> <<>>, ctx |-> r1.ctx]
            ELSE updated(mbedtls_cipher_update(
                             mbedtls_cipher_reset(r1.ctx).ctx, input, Nominal))
    IN  Widest(WithFault(iv_set(mbedtls_cipher_set_iv(c, v)), c, f), input, f)

\* check_tag: only a decrypting context can check; a non-GCM context passes
mbedtls_cipher_check_tag(c, tag) ==
    CASE c.op # "dec" -> MBEDTLS_ERR_CIPHER_BAD_INPUT_DATA
      [] c.mode # "gcm" -> 0
      [] Len(tag) > BlockSize -> MBEDTLS_ERR_CIPHER_BAD_INPUT_DATA
      [] Len(tag) = 0 -> MBEDTLS_ERR_GCM_BAD_INPUT
      [] Take(GcmTag(c), Len(tag)) # tag -> MBEDTLS_ERR_CIPHER_AUTH_FAILED
      [] OTHER -> 0

mbedtls_cipher_update_ad(c, ad) ==
    IF c.mode = "gcm" THEN mbedtls_gcm_starts(c, c.iv, ad)
    ELSE [ret |-> 0, ctx |-> c]

(***************************************************************************)
(* exception.hpp: what a call throws.                                      *)
(***************************************************************************)
NoExc == [thrown |-> FALSE, kind |-> "none", code |-> 0]

Exception(code) == [thrown |-> TRUE, kind |-> "exception", code |-> code]

UsageError == [thrown |-> TRUE, kind |-> "usage_error", code |-> 0]

UnknownCipher == [thrown |-> TRUE, kind |-> "unknown_cipher", code |-> 0]

\* a check that lets positive codes through
c_call_impl_negative(ret) == IF ret < 0 THEN Exception(ret) ELSE NoExc

c_call_impl(ret) == IF ret # 0 THEN Exception(ret) ELSE NoExc

(***************************************************************************)
(* cipher_impl: the primitive context and the remembered IV.  A method     *)
(* returns the object afterwards and what it threw.                        *)
(***************************************************************************)
cipher_impl == [ctx_ |-> mbedtls_cipher_init, iv_data_ |-> <<>>]

native_info(type) == IF type \in KnownTypes THEN NoExc ELSE UnknownCipher

setup(im, type) ==
    IF native_info(type).thrown THEN [impl |-> im, exc |-> native_info(type)]
    ELSE LET r == mbedtls_cipher_setup(im.ctx_, info_mode(type))
         IN  [impl |-> [im EXCEPT !.ctx_ = r.ctx], exc |-> c_call_impl(r.ret)]

\* mbedtls_cipher_get_block_size of a context that was set up
block_size(im) == BlockSize

iv_size(im) == info_iv_size(im.ctx_.mode)

block_mode(im) == im.ctx_.mode

\* the IV is remembered first, then handed to the primitive
iv(im, iv_data) ==
    LET r == mbedtls_cipher_set_iv(im.ctx_, iv_data)
    IN  [impl |-> [ctx_ |-> r.ctx, iv_data_ |-> iv_data],
         exc |-> c_call_impl(r.ret)]

reset_last_iv(im) == iv(im, im.iv_data_)

\* a key() that drops the primitive's verdict
key_unchecked(im, key_data, m) ==
    LET r == mbedtls_cipher_setkey(im.ctx_, key_data, m)
    IN  [impl |-> [im EXCEPT !.ctx_ = r.ctx], exc |-> NoExc]

key(im, key_data, m) ==
    LET r == mbedtls_cipher_setkey(im.ctx_, key_data, m)
    IN  [impl |-> [im EXCEPT !.ctx_ = r.ctx], exc |-> c_call_impl(r.ret)]

\* a padding that relays every mode, none included
padding_relaying(im, p) ==
    LET r == mbedtls_cipher_set_padding_mode(im.ctx_, p)
    IN  [impl |-> [im EXCEPT !.ctx_ = r.ctx], exc |-> c_call_impl(r.ret),
         calls |-> <<[fn |-> "set_padding_mode", arg |-> p]>>]

padding(im, p) ==
    IF p = "none" THEN [impl |-> im, exc |-> NoExc, calls |-> <<>>]
    ELSE LET r == mbedtls_cipher_set_padding_mode(im.ctx_, p)
         IN  [impl |-> [im EXCEPT !.ctx_ = r.ctx], exc |-> c_call_impl(r.ret),
              calls |-> <<[fn |-> "set_padding_mode", arg |-> p]>>]

\* one primitive data call, as logged: the bytes given, the code returned and
\* the bytes written
Call(fn, input, r) == [fn |-> fn, input |-> input, ret |-> r.ret, out |-> r.out]

\* a failing block ends the loop: the test the chunk driver applies
chunk_failed(ret) == ret < 0

\* a loop that advances the output offset by the block size
RECURSIVE chunk_loop_by_block(_, _, _, _)
chunk_loop_by_block(st, achunk, i, fs) ==
    IF i >= Len(achunk) \div BlockSize THEN [st EXCEPT !.ret = 0]
    ELSE LET blk == SubSeq(achunk, i * BlockSize + 1, (i + 1) * BlockSize)
             block(r) ==
                 IF chunk_failed(r.ret)
                 THEN [st EXCEPT !.calls = Append(@, Call("update", blk, r)),
                                 !.ret = r.ret, !.ctx = r.ctx]
                 ELSE chunk_loop_by_block(
                          [st EXCEPT
                              !.calls = Append(@, Call("update", blk, r)),
                              !.ctx = r.ctx,
                              !.buf = WriteAt(@, st.o_index, r.out),
                              !.hi = Max(@, st.o_index + Len(r.out)),
                              !.o_index = @ + BlockSize],
                          achunk, i + 1, fs)
         IN  block(mbedtls_cipher_update(st.ctx, blk, fs[i + 1]))

\* the loop of update_chunked over blocks i .. chunks-1; st holds the context,
\* o_index, the output buffer and the calls made so far
RECURSIVE chunk_loop(_, _, _, _)
chunk_loop(st, achunk, i, fs) ==
    IF i >= Len(achunk) \div BlockSize THEN [st EXCEPT !.ret = 0]
    ELSE LET blk == SubSeq(achunk, i * BlockSize + 1, (i + 1) * BlockSize)
             \* r is what the primitive returned for block i
             block(r) ==
                 IF chunk_failed(r.ret)
                 THEN [st EXCEPT !.calls = Append(@, Call("update", blk, r)),
                                 !.ret = r.ret, !.ctx = r.ctx]
                 ELSE chunk_loop(
                          [st EXCEPT
                              !.calls = Append(@, Call("update", blk, r)),
                              !.ctx = r.ctx,
                              !.buf = WriteAt(@, st.o_index, r.out),
                              !.hi = Max(@, st.o_index + Len(r.out)),
                              !.o_index = @ + Len(r.out)],
                          achunk, i + 1, fs)
         IN  block(mbedtls_cipher_update(st.ctx, blk, fs[i + 1]))

\* a chunk driver that starts on the blocks without the alignment test
update_chunked_unchecked(im, achunk, poutput, osize, fs) ==
    LET done(st) ==
            [ret |-> st.ret, impl |-> [im EXCEPT !.ctx_ = st.ctx],
             buf |-> st.buf, calls |-> st.calls, hi |-> st.hi,
             osize |-> IF st.ret = 0 THEN st.o_index ELSE osize]
    IN  done(chunk_loop([ret |-> 0, ctx |-> im.ctx_, o_index |-> 0,
                         buf |-> poutput, calls |-> <<>>, hi |-> 0],
                        achunk, 0, fs))

\* returns the code, the object, the output buffer, osize (untouched unless
\* the loop completes) and the primitive calls made
update_chunked(im, achunk, poutput, osize, fs) ==
    IF Len(achunk) % block_size(im) # 0
    THEN [ret |-> MBEDTLS_ERR_CIPHER_FULL_BLOCK_EXPECTED, impl |-> im,
          buf |-> poutput, osize |-> osize, calls |-> <<>>, hi |-> 0]
    ELSE LET done(st) ==
                 [ret |-> st.ret, impl |-> [im EXCEPT !.ctx_ = st.ctx],
                  buf |-> st.buf, calls |-> st.calls, hi |-> st.hi,
                  osize |-> IF st.ret = 0 THEN st.o_index ELSE osize]
         IN  done(chunk_loop([ret |-> 0, ctx |-> im.ctx_, o_index |-> 0,
                              buf |-> poutput, calls |-> <<>>, hi |-> 0],
                             achunk, 0, fs))

(***************************************************************************)
(* class cipher: the streaming interface.  A method returns the object     *)
(* afterwards (impl), what it threw (exc), the code a noexcept overload    *)
(* returns (ret), the buffer it returns or reports as produced (output)    *)
(* and the primitive data calls it made (calls).                           *)
(***************************************************************************)
Margin == 32

\* the extent of the buffer an operation allocates: its capacity, the
\* highest write position reached (destination offset plus written length)
\* and the length it is resized to
Ext(cap, hi, size) == [ext |-> [cap |-> cap, hi |-> hi, size |-> size]]

Result(im, exc, ret, output, calls) ==
    [impl |-> im, exc |-> exc, ret |-> ret, output |-> output, calls |-> calls]

\* a start that resets the primitive but does not install the IV again
start_keeping_iv(im) ==
    LET r2 == mbedtls_cipher_reset(im.ctx_)
    IN  Result([im EXCEPT !.ctx_ = r2.ctx], c_call_impl(r2.ret), 0, <<>>, <<>>)

\* a start that steps the remembered IV before installing it
start_stepping_iv(im) ==
    LET installed(r1) ==
            IF r1.exc.thrown THEN Result(r1.impl, r1.exc, 0, <<>>, <<>>)
            ELSE Result([r1.impl EXCEPT !.ctx_ =
                             mbedtls_cipher_reset(r1.impl.ctx_).ctx],
                        c_call_impl(mbedtls_cipher_reset(r1.impl.ctx_).ret),
                        0, <<>>, <<>>)
    IN  installed(iv(im, IncCounter(im.iv_data_)))

start(im) ==
    LET installed(r1) ==
            IF r1.exc.thrown THEN Result(r1.impl, r1.exc, 0, <<>>, <<>>)
            ELSE Result([r1.impl EXCEPT !.ctx_ =
                             mbedtls_cipher_reset(r1.impl.ctx_).ctx],
                        c_call_impl(mbedtls_cipher_reset(r1.impl.ctx_).ret),
                        0, <<>>, <<>>)
    IN  installed(reset_last_iv(im))

\* update(input) -> buffer_t
update(im, input, fs) ==
    LET osize  == Len(input) + block_size(im) + Margin
        chunked(r) ==
            IF r.ret # 0
            THEN Result(r.impl, Exception(r.ret), 0, <<>>, r.calls)
                 @@ Ext(osize, r.hi, 0)
            ELSE Result(r.impl, NoExc, 0, Resize(r.buf, r.osize), r.calls)
                 @@ Ext(osize, r.hi, r.osize)
        whole(r) ==
            Result([im EXCEPT !.ctx_ = r.ctx], c_call_impl(r.ret), 0,
                   IF c_call_impl(r.ret).thrown THEN <<>>
                   ELSE Resize(WriteAt(Zeros(osize), 0, r.out), Len(r.out)),
                   <<Call("update", input, r)>>)
            @@ Ext(osize, Len(r.out),
                   IF c_call_impl(r.ret).thrown THEN 0 ELSE Len(r.out))
    IN  IF block_mode(im) = "ecb"
        THEN chunked(update_chunked(im, input, Zeros(osize), osize, fs))
        ELSE whole(mbedtls_cipher_update(im.ctx_, input, fs[1]))

\* update(input, in_index, count, output, out_index) -> size_t; output is the
\* caller's buffer, of which the bytes reported as produced are returned
update_at(im, input, in_index, count, output, out_index, fs) ==
    LET view == SubSeq(input, in_index + 1, in_index + count)
        chunked(r) ==
            IF r.ret # 0
            THEN Result(r.impl, Exception(r.ret), 0, <<>>, r.calls)
            ELSE Result(r.impl, NoExc, 0, Take(r.buf, r.osize), r.calls)
        whole(r) ==
            Result([im EXCEPT !.ctx_ = r.ctx], c_call_impl(r.ret), 0,
                   IF c_call_impl(r.ret).thrown THEN <<>> ELSE r.out,
                   <<Call("update", view, r)>>)
    IN  IF block_mode(im) = "ecb"
        THEN chunked(update_chunked(im, view, Drop(output, out_index), 0, fs))
        ELSE whole(mbedtls_cipher_update(im.ctx_, view, fs[1]))

\* update(input, output, output_size) noexcept -> int
update_noexcept(im, input, output, output_size, fs) ==
    LET chunked(r) ==
            Result(r.impl, NoExc, r.ret, Take(r.buf, r.osize), r.calls)
        whole(r) ==
            Result([im EXCEPT !.ctx_ = r.ctx], NoExc, r.ret, r.out,
                   <<Call("update", input, r)>>)
    IN  IF block_mode(im) = "ecb"
        THEN chunked(update_chunked(im, input, output, output_size, fs))
        ELSE whole(mbedtls_cipher_update(im.ctx_, input, fs[1]))

\* a finish that drops what the primitive wrote
finish_discarding(im) ==
    LET flushed(r) ==
            Result([im EXCEPT !.ctx_ = r.ctx], c_call_impl(r.ret), 0, <<>>,
                   <<Call("finish", <<>>, r)>>)
            @@ Ext(block_size(im) + Margin, 0, 0)
    IN  flushed(mbedtls_cipher_finish(im.ctx_))

\* finish() -> buffer_t
finish(im) ==
    LET flushed(r) ==
            Result([im EXCEPT !.ctx_ = r.ctx], c_call_impl(r.ret), 0,
                   IF c_call_impl(r.ret).thrown THEN <<>> ELSE r.out,
                   <<Call("finish", <<>>, r)>>)
            @@ Ext(block_size(im) + Margin, Len(r.out),
                   IF c_call_impl(r.ret).thrown THEN 0 ELSE Len(r.out))
    IN  flushed(mbedtls_cipher_finish(im.ctx_))

\* crypt(input) -> buffer_t: start(), then one update call on the whole
\* input and one finish call, both writing into one buffer
crypt(im, input, fs) ==
    LET osize == Margin + Len(input) + block_size(im)
        \* r1 is what update returned, r2 what finish returned
        finished(r0, r1, r2) ==
            IF c_call_impl(r2.ret).thrown
            THEN Result([r0.impl EXCEPT !.ctx_ = r2.ctx], c_call_impl(r2.ret),
                        0, <<>>,
                        <<Call("update", input, r1), Call("finish", <<>>, r2)>>)
                 @@ Ext(osize, Len(r1.out) + Len(r2.out), 0)
            ELSE Result([r0.impl EXCEPT !.ctx_ = r2.ctx], NoExc, 0,
                        Resize(WriteAt(WriteAt(Zeros(osize), 0, r1.out),
                                       Len(r1.out), r2.out),
                               Len(r1.out) + Len(r2.out)),
                        <<Call("update", input, r1), Call("finish", <<>>, r2)>>)
                 @@ Ext(osize, Len(r1.out) + Len(r2.out),
                        Len(r1.out) + Len(r2.out))
        updated(r0, r1) ==
            IF c_call_impl(r1.ret).thrown
            THEN Result([r0.impl EXCEPT !.ctx_ = r1.ctx], c_call_impl(r1.ret),
                        0, <<>>, <<Call("update", input, r1)>>)
                 @@ Ext(osize, Len(r1.out), 0)
            ELSE finished(r0, r1, mbedtls_cipher_finish(r1.ctx))
        started(r0) ==
            IF r0.exc.thrown
            THEN Result(r0.impl, r0.exc, 0, <<>>, <<>>) @@ Ext(0, 0, 0)
            ELSE updated(r0, mbedtls_cipher_update(r0.impl.ctx_, input, fs[1]))
    IN  started(start(im))

gcm_additional_data(im, ad) ==
    LET fed(r) ==
            Result([im EXCEPT !.ctx_ = r.ctx], c_call_impl(r.ret), 0, <<>>,
                   <<>>)
    IN  fed(mbedtls_cipher_update_ad(im.ctx_, ad))

\* true: authenticated, false: authentication failed, thrown: anything else
\* what the switch of gcm_check_decryption_tag makes of the primitive's code
tag_verdict(ret) ==
    CASE ret = 0 -> "true"
      [] ret = MBEDTLS_ERR_CIPHER_AUTH_FAILED -> "false"
      [] OTHER -> "throw"

gcm_check_decryption_tag(im, tag, f) ==
    LET checked(ret) ==
            CASE tag_verdict(ret) = "true" ->
                    [exc |-> NoExc, auth |-> TRUE, ret |-> ret]
              [] tag_verdict(ret) = "false" ->
                    [exc |-> NoExc, auth |-> FALSE, ret |-> ret]
              [] OTHER -> [exc |-> Exception(ret), auth |-> FALSE, ret |-> ret]
    IN  checked(IF f.kind = "err" THEN f.code
                ELSE mbedtls_cipher_check_tag(im.ctx_, tag))

(***************************************************************************)
(* AEAD primitives: [ret, out, set] with set telling whether the primitive *)
(* stored the written length (olen) at all.                                *)
(***************************************************************************)
TagLen == BlockSize

mbedtls_cipher_auth_encrypt(c, v, ad, input) ==
    IF c.mode # "gcm"
    THEN [ret |-> MBEDTLS_ERR_CIPHER_FEATURE_UNAVAILABLE, out |-> <<>>,
          tag |-> Zeros(TagLen), set |-> FALSE]
    ELSE LET updated(u) ==
                 [ret |-> 0, out |-> u.out, tag |-> GcmTag(u.ctx),
                  set |-> TRUE]
             started(s) ==
                 IF s.ret # 0
                 THEN [ret |-> s.ret, out |-> Zeros(Len(input)),
                       tag |-> Zeros(TagLen), set |-> TRUE]
                 ELSE updated(mbedtls_gcm_update(s.ctx, input))
         IN  started(mbedtls_gcm_starts(c, v, ad))

mbedtls_cipher_auth_decrypt(c, v, ad, input, tag, f) ==
    IF f.kind = "err"
    THEN [ret |-> f.code, out |-> <<>>, set |-> FALSE]
    ELSE IF c.mode # "gcm"
    THEN [ret |-> MBEDTLS_ERR_CIPHER_FEATURE_UNAVAILABLE, out |-> <<>>,
          set |-> FALSE]
    ELSE LET updated(u) ==
                 CASE Len(tag) = 0 \/ Len(tag) > TagLen ->
                        [ret |-> MBEDTLS_ERR_GCM_BAD_INPUT, out |-> u.out,
                         set |-> TRUE]
                   [] Take(GcmTag(u.ctx), Len(tag)) # tag ->
                        \* the output is wiped on a tag mismatch
                        [ret |-> MBEDTLS_ERR_CIPHER_AUTH_FAILED,
                         out |-> Zeros(Len(input)), set |-> TRUE]
                   [] OTHER -> [ret |-> 0, out |-> u.out, set |-> TRUE]
             started(s) ==
                 IF s.ret # 0
                 THEN [ret |-> s.ret, out |-> Zeros(Len(input)), set |-> TRUE]
                 ELSE updated(mbedtls_gcm_update(s.ctx, input))
         IN  started(mbedtls_gcm_starts(c, v, ad))

(***************************************************************************)
(* crypt_engine: the one-shot engine.                                      *)
(***************************************************************************)
\* a length test that lets the empty input through
ecb_size_refused_nonempty(input_size_, block_size_) ==
    input_size_ % block_size_ # 0

\* the ECB length test of the constructor: TRUE when the input is refused
ecb_size_refused(input_size_, block_size_) ==
    input_size_ = 0 \/ input_size_ % block_size_ # 0

\* the constructor: the engine, what it threw and the step that threw
crypt_engine(type, pad, iv_data, key_data, m, input) ==
    LET \* the engine whose member cim_ is im
        engine(im) ==
            [block_mode_ |-> info_mode(type), block_size_ |-> BlockSize,
             input_size_ |-> Len(input), chunks_ |-> 0,
             cim_ |-> im, input_ |-> input]
        sized(eng) ==
            IF eng.block_mode_ = "ecb"
            THEN IF ecb_size_refused(eng.input_size_, eng.block_size_)
                 THEN [eng |-> eng, exc |-> UsageError, at |-> "size"]
                 ELSE [eng |-> [eng EXCEPT !.chunks_ =
                                    eng.input_size_ \div eng.block_size_],
                       exc |-> NoExc, at |-> "none"]
            ELSE [eng |-> [eng EXCEPT !.chunks_ = 1], exc |-> NoExc,
                  at |-> "none"]
        keyed(r4) ==
            IF r4.exc.thrown
            THEN [eng |-> engine(r4.impl), exc |-> r4.exc, at |-> "key"]
            ELSE sized(engine(r4.impl))
        ived(r3) ==
            IF r3.exc.thrown
            THEN [eng |-> engine(r3.impl), exc |-> r3.exc, at |-> "iv"]
            ELSE keyed(key(r3.impl, key_data, m))
        padded(r2) ==
            IF r2.exc.thrown
            THEN [eng |-> engine(r2.impl), exc |-> r2.exc, at |-> "padding"]
            ELSE ived(iv(r2.impl, iv_data))
        bound(r1) ==
            IF r1.exc.thrown
            THEN [eng |-> engine(r1.impl), exc |-> r1.exc, at |-> "setup"]
            ELSE padded(padding(r1.impl, pad))
    IN  IF native_info(type).thrown
        THEN [eng |-> engine(cipher_impl), exc |-> native_info(type),
              at |-> "info"]
        ELSE bound(setup(cipher_impl, type))

\* a capacity without the margin and the extra block
output_size_tight(eng) == eng.input_size_

output_size(eng) == Margin + eng.input_size_ + eng.block_size_

\* the IV compute() hands to each crypt call: iv_size() bytes of iv_data_
engine_iv(eng) == Take(eng.cim_.iv_data_, iv_size(eng.cim_))

\* how far the destination pointer moves after a block of the ECB loop
des_advance(eng, done_size) == eng.block_size_

\* the ECB loop of compute() over blocks i .. chunks_-1; st holds the
\* context, osize, the output buffer, the destination offset and the calls
RECURSIVE compute_loop(_, _, _, _)
compute_loop(st, eng, i, fs) ==
    IF i >= eng.chunks_ THEN st
    ELSE LET blk == SubSeq(eng.input_, i * eng.block_size_ + 1,
                           (i + 1) * eng.block_size_)
             \* r is what the primitive returned for block i
             block(r) ==
                 IF c_call_impl(r.ret).thrown
                 THEN [st EXCEPT !.calls = Append(@, Call("crypt", blk, r)),
                                 !.ctx = r.ctx,
                                 !.exc = c_call_impl(r.ret)]
                 ELSE compute_loop(
                          [st EXCEPT
                              !.calls = Append(@, Call("crypt", blk, r)),
                              !.ctx = r.ctx,
                              !.buf = WriteAt(@, st.des, r.out),
                              !.hi = Max(@, st.des + Len(r.out)),
                              !.osize = @ + Len(r.out),
                              !.des = @ + des_advance(eng, Len(r.out))],
                          eng, i + 1, fs)
         IN  block(mbedtls_cipher_crypt(st.ctx, engine_iv(eng), blk, fs[i + 1]))

\* compute(): what it threw, the buffer it returns and the calls it made
compute(eng, fs) ==
    LET whole(r) ==
            [exc |-> c_call_impl(r.ret),
             output |-> IF c_call_impl(r.ret).thrown THEN <<>>
                        ELSE Resize(WriteAt(Zeros(output_size(eng)), 0, r.out),
                                    Len(r.out)),
             calls |-> <<Call("crypt", eng.input_, r)>>,
             ext |-> [cap |-> output_size(eng), hi |-> Len(r.out),
                      size |-> IF c_call_impl(r.ret).thrown THEN 0
                               ELSE Len(r.out)]]
        looped(st) ==
            [exc |-> st.exc,
             output |-> IF st.exc.thrown THEN <<>>
                        ELSE Resize(st.buf, st.osize),
             calls |-> st.calls,
             ext |-> [cap |-> output_size(eng), hi |-> st.hi,
                      size |-> IF st.exc.thrown THEN 0 ELSE st.osize]]
    IN  IF eng.chunks_ = 1
        THEN whole(mbedtls_cipher_crypt(eng.cim_.ctx_, engine_iv(eng),
                                        eng.input_, fs[1]))
        ELSE looped(compute_loop([ctx |-> eng.cim_.ctx_, osize |-> 0,
                                  buf |-> Zeros(output_size(eng)), des |-> 0,
                                  hi |-> 0, calls |-> <<>>, exc |-> NoExc],
                                 eng, 0, fs))

\* crypt_engine::run: construct, then compute
run(type, pad, iv_data, key_data, m, input, fs) ==
    LET computed(r) ==
            [exc |-> r.exc, output |-> r.output, calls |-> r.calls,
             at |-> IF r.exc.thrown THEN "compute" ELSE "none",
             ext |-> r.ext]
        constructed(ce) ==
            IF ce.exc.thrown
            THEN [exc |-> ce.exc, output |-> <<>>, calls |-> <<>>,
                  at |-> ce.at] @@ Ext(0, 0, 0)
            ELSE computed(compute(ce.eng, fs))
    IN  constructed(crypt_engine(type, pad, iv_data, key_data, m, input))

encrypt(type, pad, iv_data, key_data, input, fs) ==
    run(type, pad, iv_data, key_data, "enc", input, fs)

\* a decrypt that sets the key up for encryption
decrypt_enc_mode(type, pad, iv_data, key_data, input, fs) ==
    run(type, pad, iv_data, key_data, "enc", input, fs)

decrypt(type, pad, iv_data, key_data, input, fs) ==
    run(type, pad, iv_data, key_data, "dec", input, fs)

(***************************************************************************)
(* One-shot AEAD.                                                          *)
(***************************************************************************)
encrypt_aead(type, iv_data, key_data, ad, input) ==
    LET \* r is what the primitive returned on the keyed context
        sealed(im, r) ==
            IF c_call_impl(r.ret).thrown
            THEN [exc |-> c_call_impl(r.ret), tag |-> <<>>, output |-> <<>>]
                 @@ Ext(Len(input) + block_size(im), Len(r.out), 0)
            ELSE [exc |-> NoExc, tag |-> r.tag,
                  output |-> Resize(WriteAt(Zeros(Len(input) + block_size(im)),
                                            0, r.out),
                                    Len(r.out))]
                 @@ Ext(Len(input) + block_size(im), Len(r.out), Len(r.out))
        keyed(r2) ==
            IF r2.exc.thrown
            THEN [exc |-> r2.exc, tag |-> <<>>, output |-> <<>>]
                 @@ Ext(0, 0, 0)
            ELSE sealed(r2.impl,
                        mbedtls_cipher_auth_encrypt(r2.impl.ctx_, iv_data, ad,
                                                    input))
        bound(r1) ==
            IF r1.exc.thrown
            THEN [exc |-> r1.exc, tag |-> <<>>, output |-> <<>>]
                 @@ Ext(0, 0, 0)
            ELSE keyed(key(r1.impl, key_data, "enc"))
    IN  bound(setup(cipher_impl, type))

\* a verdict that takes every code but authentication-failed for success
aead_verdict_lenient(ret) ==
    IF ret = MBEDTLS_ERR_CIPHER_AUTH_FAILED THEN "false" ELSE "true"

\* what decrypt_aead makes of the primitive's code: "true", "false", "throw"
aead_verdict(ret) ==
    IF ret = MBEDTLS_ERR_CIPHER_AUTH_FAILED THEN "false"
    ELSE IF ret = 0 THEN "true" ELSE "throw"

\* returns what it threw, the flag and buffer it returns, and the code the
\* primitive gave (called: whether the primitive was reached)
decrypt_aead(type, iv_data, key_data, ad, tag, input, f) ==
    LET none == [exc |-> NoExc, auth |-> FALSE, output |-> <<>>,
                 called |-> FALSE, ret |-> 0] @@ Ext(0, 0, 0)
        \* r is what the primitive returned on the keyed context; olen is
        \* the declared length, or its initial value when none was stored
        resized(im, r, olen) ==
            CASE aead_verdict(r.ret) = "throw" ->
                    [exc |-> Exception(r.ret), auth |-> FALSE,
                     output |-> <<>>, called |-> TRUE, ret |-> r.ret]
                    @@ Ext(Len(input) + block_size(im), Len(r.out), olen)
              [] OTHER ->
                    [exc |-> NoExc, auth |-> aead_verdict(r.ret) = "true",
                     output |->
                         Resize(WriteAt(Zeros(Len(input) + block_size(im)), 0,
                                        r.out),
                                olen),
                     called |-> TRUE, ret |-> r.ret]
                    @@ Ext(Len(input) + block_size(im), Len(r.out), olen)
        opened(im, r) ==
            resized(im, r, IF r.set THEN Len(r.out)
                           ELSE Len(input) + block_size(im))
        keyed(r2) ==
            IF r2.exc.thrown THEN [none EXCEPT !.exc = r2.exc]
            ELSE opened(r2.impl,
                        mbedtls_cipher_auth_decrypt(r2.impl.ctx_, iv_data, ad,
                                                    input, tag, f))
        bound(r1) ==
            IF r1.exc.thrown THEN [none EXCEPT !.exc = r1.exc]
            ELSE keyed(key(r1.impl, key_data, "dec"))
    IN  bound(setup(cipher_impl, type))

(***************************************************************************)
(* The values callers use.                                                 *)
(***************************************************************************)
MaxChunks == 2      \* chunks of a run whose output is followed

MaxRepeats == 1     \* repetitions of a recorded run

Pat(n, s, z) == [i \in 1..n |-> IF i = n THEN z ELSE (i + s) % 2]

\* inputs of the one-shot calls: every length, two bodies, every last byte
Inputs == {Pat(n, s, z) : n \in 0..MaxLen, s \in {0, 1}, z \in Byte}

\* chunks of the streaming calls: empty, partial, one block, one block and
\* a byte, MaxBlocks blocks
Chunks == {Pat(n, 0, n % 2) : n \in {0, 1, BlockSize, BlockSize + 1, MaxLen}}

K1 == [i \in 1..BlockSize |-> 1]

K2 == [i \in 1..BlockSize |-> i % 4]

KBad == [i \in 1..(BlockSize + 1) |-> 1]

IvA == [i \in 1..BlockSize |-> 1]

IvB == [i \in 1..BlockSize |-> (3 * i) % 4]

IvLong == [i \in 1..(BlockSize + 1) |-> 2]

\* the faults of the primitive calls of one operation, by call index: at
\* most one call deviates
FaultSeqs ==
    {[i \in 1..MaxBlocks |-> IF i = k THEN f ELSE Nominal] :
        k \in 1..MaxBlocks, f \in Faults}

AllNominal == [i \in 1..MaxBlocks |-> Nominal]

(***************************************************************************)
(* State.                                                                  *)
(*   pimpl : the cipher object (cipher::impl)                              *)
(*   last  : the last call on it and what it gave                          *)
(*   stream: the calls and the output since the last start()               *)
(*   first : the first completed run since the key, IV or padding changed  *)
(*   args, shot : the arguments and the progress of a one-shot call        *)
(***************************************************************************)
VARIABLES pimpl, last, stream, first, args, shot

vars == <<pimpl, last, stream, first, args, shot>>

Untracked == [tracked |-> FALSE, done |-> FALSE, fed |-> <<>>, out |-> <<>>]

Fresh == [tracked |-> TRUE, done |-> FALSE, fed |-> <<>>, out |-> <<>>]

\* on: whether first runs are recorded and repeated at all
\* runs: the start() calls made since the first run was recorded
Unset(on) == [on |-> on, set |-> FALSE, fed |-> <<>>, out |-> <<>>, runs |-> 0]

NoArgs == [call |-> "none"]

NoShot == [phase |-> "none"]

Last(op, input, r) ==
    [op |-> op, input |-> input, exc |-> r.exc, ret |-> r.ret,
     output |-> r.output, calls |-> r.calls, auth |-> FALSE]

Plain(op, input, exc) ==
    [op |-> op, input |-> input, exc |-> exc, ret |-> 0, output |-> <<>>,
     calls |-> <<>>, auth |-> FALSE]

\* the run after a call that fed data: followed while every call succeeds
\* on a primitive that behaves (nominal)
Feed(op, data, r, nominal) ==
    IF stream.tracked /\ ~stream.done /\ ~r.exc.thrown /\ r.ret = 0 /\ nominal
    THEN [stream EXCEPT !.fed = Append(@, [op |-> op, data |-> data]),
                        !.out = @ \o r.output]
    ELSE Untracked

\* a cipher is constructed for a known type: cipher::cipher(type)
StreamInit(on) ==
    /\ \E type \in KnownTypes : pimpl = setup(cipher_impl, type).impl
    /\ last = Plain("cipher", <<>>, NoExc)
    /\ stream = Untracked
    /\ first = Unset(on)
    /\ args = NoArgs
    /\ shot = NoShot

Key(key_data, m) ==
    \E r \in {key(pimpl, key_data, m)} :
        /\ pimpl' = r.impl
        /\ last' = Plain("key", key_data, r.exc)
        /\ stream' = Untracked
        /\ first' = Unset(first.on)
        /\ UNCHANGED <<args, shot>>

Iv(iv_data) ==
    \E r \in {iv(pimpl, iv_data)} :
        /\ pimpl' = r.impl
        /\ last' = Plain("iv", iv_data, r.exc)
        /\ stream' = Untracked
        /\ first' = Unset(first.on)
        /\ UNCHANGED <<args, shot>>

Padding(p) ==
    \E r \in {padding(pimpl, p)} :
        /\ pimpl' = r.impl
        /\ last' = [Plain("padding", p, r.exc) EXCEPT !.calls = r.calls]
        /\ stream' = Untracked
        /\ first' = Unset(first.on)
        /\ UNCHANGED <<args, shot>>

\* a recorded run is repeated at most MaxRepeats times; last.input of a
\* start() is the partial data that was buffered when it was called
Start ==
    /\ first.set => first.runs < MaxRepeats
    /\ \E r \in {start(pimpl)} :
        /\ pimpl' = r.impl
        /\ last' = Last("start", pimpl.ctx_.unproc, r)
        /\ stream' = IF r.exc.thrown THEN Untracked ELSE Fresh
        /\ first' = IF first.set THEN [first EXCEPT !.runs = @ + 1] ELSE first
        /\ UNCHANGED <<args, shot>>

\* The caller follows the life cycle of a context: data is fed once a key
\* is installed and start() has succeeded, at most MaxChunks times in a run,
\* and a run ends with finish(), with a call that fails or with a change of
\* the key, the IV or the padding.  When a first run is being repeated, the
\* caller makes the calls of that run in their order.
InRun == pimpl.ctx_.op # "none" /\ stream.tracked /\ ~stream.done

MayFeed(op, data) ==
    /\ InRun
    /\ Len(stream.fed) < MaxChunks
    /\ first.set =>
            /\ Len(stream.fed) < Len(first.fed)
            /\ first.fed[Len(stream.fed) + 1] = [op |-> op, data |-> data]

\* the faults given to the primitive calls of an update of input: those of
\* the blocks the chunk driver feeds
UpdateFaults(input) ==
    {fs \in FaultSeqs :
        \A i \in 1..MaxBlocks :
            fs[i] # Nominal =>
                block_mode(pimpl) = "ecb" /\ i * BlockSize <= Len(input)}

Update(input, fs) ==
    /\ MayFeed("update", input)
    /\ \E r \in {update(pimpl, input, fs)} :
           /\ pimpl' = r.impl
           /\ last' = Last("update", input, r)
           /\ stream' = Feed("update", input, r, fs = AllNominal)
    /\ UNCHANGED <<first, args, shot>>

\* the view fed is input[in_index .. in_index + count)
UpdateAt(view, in_index, fs) ==
    /\ MayFeed("update", view)
    /\ \E r \in {update_at(pimpl, Zeros(in_index) \o view, in_index, Len(view),
                           Zeros(Len(view) + BlockSize + Margin), 0, fs)} :
           /\ pimpl' = r.impl
           /\ last' = Last("update_at", view, r)
           /\ stream' = Feed("update", view, r, fs = AllNominal)
    /\ UNCHANGED <<first, args, shot>>

UpdateNoexcept(input, fs) ==
    /\ MayFeed("update", input)
    /\ \E r \in {update_noexcept(pimpl, input,
                                 Zeros(Len(input) + BlockSize + Margin), 0, fs)} :
           /\ pimpl' = r.impl
           /\ last' = Last("update_noexcept", input, r)
           /\ stream' = Feed("update", input, r, fs = AllNominal)
    /\ UNCHANGED <<first, args, shot>>

Finish ==
    /\ InRun
    /\ first.set => stream.fed = first.fed
    /\ \E r \in {finish(pimpl)} :
         \E ends \in {stream.tracked /\ ~stream.done /\ ~r.exc.thrown} :
           /\ pimpl' = r.impl
           /\ last' = Last("finish", <<>>, r)
           /\ stream' = IF ends
                        THEN [stream EXCEPT !.done = TRUE, !.out = @ \o r.output]
                        ELSE Untracked
           /\ first' = IF ends /\ first.on /\ ~first.set /\ stream.fed # <<>>
                       THEN [first EXCEPT !.set = TRUE, !.fed = stream.fed,
                                          !.out = stream.out \o r.output]
                       ELSE first
    /\ UNCHANGED <<args, shot>>

GcmAdditionalData(ad) ==
    /\ MayFeed("ad", ad)
    /\ \E r \in {gcm_additional_data(pimpl, ad)} :
           /\ pimpl' = r.impl
           /\ last' = Last("gcm_additional_data", ad, r)
           /\ stream' = Feed("ad", ad, r, TRUE)
    /\ UNCHANGED <<first, args, shot>>

\* the tag of a run is checked once the run is finished
GcmCheckDecryptionTag(tag, f) ==
    /\ pimpl.ctx_.op # "none"
    /\ stream.tracked /\ stream.done
    /\ \E r \in {gcm_check_decryption_tag(pimpl, tag, f)} :
           last' = [Plain("gcm_check_decryption_tag", <<>>, r.exc)
                        EXCEPT !.ret = r.ret, !.auth = r.auth]
    /\ UNCHANGED <<pimpl, stream, first, args, shot>>

StreamNext ==
    \/ \E k \in {K1, KBad}, m \in {"enc", "dec"} : Key(k, m)
    \/ \E v \in {<<>>, IvA} : Iv(v)
    \/ \E p \in PaddingModes : Padding(p)
    \/ Start
    \/ \E c \in Chunks : \E fs \in UpdateFaults(c) : Update(c, fs)
    \/ \E c \in Chunks, i \in {0, 1} : \E fs \in UpdateFaults(c) : UpdateAt(c, i, fs)
    \/ \E c \in Chunks : \E fs \in UpdateFaults(c) : UpdateNoexcept(c, fs)
    \/ Finish
    \/ \E ad \in {<<>>, <<1>>} : GcmAdditionalData(ad)
    \/ \E t \in {GcmTag(pimpl.ctx_), Zeros(TagLen)},
          f \in {Nominal, [kind |-> "err", code |-> 1]} :
            GcmCheckDecryptionTag(t, f)

\* the streaming interface, used freely
Spec == StreamInit(FALSE) /\ [][StreamNext]_vars

\* the streaming interface where a completed run is then repeated
SpecRestart == StreamInit(TRUE) /\ [][StreamNext]_vars

(***************************************************************************)
(* The one-shot interface: a caller picks the arguments of a call (args)   *)
(* and makes it; shot holds what the call gave.                            *)
(***************************************************************************)
\* cipher::encrypt / cipher::decrypt arguments.  A GCM call is given an IV
\* of the registry's length: compute() reads iv_size() bytes of it.
CryptArgs ==
    {a \in [call : {"crypt"}, type : CipherTypes, pad : PaddingModes,
            iv : {<<>>, IvA, IvB, IvLong}, key : {K1, K2, KBad},
            input : Inputs] :
        a.type = "aes_128_gcm" => Len(a.iv) >= info_iv_size("gcm")}

\* cipher::encrypt_aead / cipher::decrypt_aead arguments
AeadArgs ==
    [call : {"aead"}, type : KnownTypes, iv : {<<>>, IvA}, key : {K1, KBad},
     ad : {<<>>, <<1>>}, input : Chunks]

OneShotInit ==
    /\ pimpl = cipher_impl
    /\ last = Plain("none", <<>>, NoExc)
    /\ stream = Untracked
    /\ first = Unset(FALSE)
    /\ args \in CryptArgs \cup AeadArgs
    /\ shot = NoShot

Encrypt(fs) ==
    /\ args.call = "crypt" /\ shot.phase = "none"
    /\ shot' = [phase |-> "encrypt", fs |-> fs,
                r |-> encrypt(args.type, args.pad, args.iv, args.key,
                              args.input, fs)]
    /\ UNCHANGED <<pimpl, last, stream, first, args>>

Decrypt(fs) ==
    /\ args.call = "crypt" /\ shot.phase = "none"
    /\ shot' = [phase |-> "decrypt", fs |-> fs,
                r |-> decrypt(args.type, args.pad, args.iv, args.key,
                              args.input, fs)]
    /\ UNCHANGED <<pimpl, last, stream, first, args>>

\* decrypt of what encrypt returned, with the same type, padding, IV and key
DecryptBack ==
    /\ shot.phase = "encrypt" /\ ~shot.r.exc.thrown /\ shot.fs = AllNominal
    /\ shot' = [phase |-> "back", fs |-> AllNominal,
                r |-> decrypt(args.type, args.pad, args.iv, args.key,
                              shot.r.output, AllNominal)]
    /\ UNCHANGED <<pimpl, last, stream, first, args>>

EncryptAead ==
    /\ args.call = "aead" /\ shot.phase = "none"
    /\ shot' = [phase |-> "encrypt_aead",
                r |-> encrypt_aead(args.type, args.iv, args.key, args.ad,
                                   args.input)]
    /\ UNCHANGED <<pimpl, last, stream, first, args>>

\* what reaches the receiver of an AEAD message (ad, tag, text)
Tampers == {"none", "ad", "tag", "text"}

Flip(s) == IF s = <<>> THEN <<1>> ELSE [s EXCEPT ![1] = (@ + 1) % 4]

Received(tamper) ==
    IF shot.phase = "encrypt_aead" /\ ~shot.r.exc.thrown
    THEN [ad   |-> IF tamper = "ad" THEN Flip(args.ad) ELSE args.ad,
          tag  |-> IF tamper = "tag" THEN Flip(shot.r.tag) ELSE shot.r.tag,
          text |-> IF tamper = "text" THEN Flip(shot.r.output)
                   ELSE shot.r.output]
    ELSE [ad |-> args.ad, tag |-> Zeros(TagLen), text |-> args.input]

DecryptAead(tamper, f) ==
    /\ args.call = "aead" /\ shot.phase \in {"none", "encrypt_aead"}
    /\ \E m \in {Received(tamper)} :
          shot' = [phase |-> "decrypt_aead", tamper |-> tamper, m |-> m,
                   fresh |-> shot.phase = "none",
                   r |-> decrypt_aead(args.type, args.iv, args.key, m.ad,
                                      m.tag, m.text, f)]
    /\ UNCHANGED <<pimpl, last, stream, first, args>>

\* the receiver decrypts by streaming and then checks the tag: key, iv,
\* start, gcm_additional_data, update, finish, gcm_check_decryption_tag
tag_run(type, iv_data, key_data, ad, tag, text, f) ==
    LET none == [exc |-> NoExc, auth |-> FALSE, output |-> <<>>,
                 called |-> FALSE, ret |-> 0]
        s8(r6, r7, r) ==
            [exc |-> r.exc, auth |-> r.auth,
             output |-> r6.output \o r7.output, called |-> TRUE,
             ret |-> r.ret]
        s7(r6, r7) ==
            IF r7.exc.thrown THEN [none EXCEPT !.exc = r7.exc]
            ELSE s8(r6, r7, gcm_check_decryption_tag(r7.impl, tag, f))
        s6(r6) ==
            IF r6.exc.thrown THEN [none EXCEPT !.exc = r6.exc]
            ELSE s7(r6, finish(r6.impl))
        s5(r5) ==
            IF r5.exc.thrown THEN [none EXCEPT !.exc = r5.exc]
            ELSE s6(update(r5.impl, text, AllNominal))
        s4(r4) ==
            IF r4.exc.thrown THEN [none EXCEPT !.exc = r4.exc]
            ELSE s5(gcm_additional_data(r4.impl, ad))
        s3(r3) ==
            IF r3.exc.thrown THEN [none EXCEPT !.exc = r3.exc]
            ELSE s4(start(r3.impl))
        s2(r2) ==
            IF r2.exc.thrown THEN [none EXCEPT !.exc = r2.exc]
            ELSE s3(iv(r2.impl, iv_data))
        s1(r1) ==
            IF r1.exc.thrown THEN [none EXCEPT !.exc = r1.exc]
            ELSE s2(key(r1.impl, key_data, "dec"))
    IN  s1(setup(cipher_impl, type))

CheckTag(tamper, f) ==
    /\ args.call = "aead" /\ shot.phase \in {"none", "encrypt_aead"}
    /\ \E m \in {Received(tamper)} :
          shot' = [phase |-> "check_tag", tamper |-> tamper, m |-> m,
                   fresh |-> shot.phase = "none",
                   r |-> tag_run(args.type, args.iv, args.key, m.ad, m.tag,
                                 m.text, f)]
    /\ UNCHANGED <<pimpl, last, stream, first, args>>

\* a cipher constructed for the type and configured with padding(), iv()
\* and key(); the exception is the first one thrown on the way
configured(type, pad, iv_data, key_data, m) ==
    LET ived(r3) ==
            IF r3.exc.thrown THEN r3 ELSE key(r3.impl, key_data, m)
        padded(r2) ==
            IF r2.exc.thrown THEN [impl |-> r2.impl, exc |-> r2.exc]
            ELSE ived(iv(r2.impl, iv_data))
        bound(r1) ==
            IF r1.exc.thrown THEN r1 ELSE padded(padding(r1.impl, pad))
    IN  bound(setup(cipher_impl, type))

\* start(); update(input); finish() on the context, as one call sequence:
\* the first exception thrown, or the two outputs in order
start_update_finish(im, input) ==
    LET finished(r1, r2) ==
            IF r2.exc.thrown THEN [exc |-> r2.exc, output |-> <<>>]
            ELSE [exc |-> NoExc, output |-> r1.output \o r2.output]
        updated(r1) ==
            IF r1.exc.thrown THEN [exc |-> r1.exc, output |-> <<>>]
            ELSE finished(r1, finish(r1.impl))
        started(r0) ==
            IF r0.exc.thrown THEN [exc |-> r0.exc, output |-> <<>>]
            ELSE updated(update(r0.impl, input, AllNominal))
    IN  started(start(im))

\* crypt(input) on a configured context, next to start/update/finish on
\* the same context
Crypt(m) ==
    /\ args.call = "crypt" /\ shot.phase = "none"
    /\ \E c \in {configured(args.type, args.pad, args.iv, args.key, m)} :
          /\ ~c.exc.thrown
          /\ shot' = [phase |-> "crypt", m |-> m,
                      r |-> crypt(c.impl, args.input, AllNominal),
                      steps |-> start_update_finish(c.impl, args.input)]
    /\ UNCHANGED <<pimpl, last, stream, first, args>>

OneShotNext ==
    \/ \E fs \in FaultSeqs : Encrypt(fs)
    \/ \E m \in {"enc", "dec"} : Crypt(m)
    \/ \E fs \in FaultSeqs : Decrypt(fs)
    \/ DecryptBack
    \/ EncryptAead
    \/ \E t \in Tampers, f \in {Nominal, [kind |-> "err", code |-> 1]} :
            DecryptAead(t, f)
    \/ \E t \in Tampers, f \in {Nominal, [kind |-> "err", code |-> 1]} :
            CheckTag(t, f)

\* the one-shot interface
SpecOneShot == OneShotInit /\ [][OneShotNext]_vars

(***************************************************************************)
(* Lifetime of the primitive context.  A cipher_impl owns one context:     *)
(* its constructor initialises it, its destructor frees it.  The ledger    *)
(* counts both; the actions below follow each owner of a cipher_impl       *)
(* through construction, the calls that may throw, and destruction.        *)
(***************************************************************************)
NoContexts == [inits |-> 0, frees |-> 0]

\* cipher_impl::cipher_impl: mbedtls_cipher_init
cipher_impl_ctor(led) == [led EXCEPT !.inits = @ + 1]

cipher_impl_dtor_leaky(led) == led

\* cipher_impl::~cipher_impl: mbedtls_cipher_free
cipher_impl_dtor(led) == [led EXCEPT !.frees = @ + 1]

\* cipher::cipher arguments
CipherArgs == [call : {"cipher"}, type : CipherTypes]

LifeInit ==
    /\ pimpl = cipher_impl
    /\ last = Plain("none", <<>>, NoExc)
    /\ stream = Untracked
    /\ first = Unset(FALSE)
    /\ args \in CryptArgs \cup AeadArgs \cup CipherArgs
    /\ shot = NoShot

Life(phase, led, exc, m) ==
    [phase |-> phase, led |-> led, exc |-> exc, m |-> m]

\* cipher::cipher, member initialiser: pimpl(std::make_unique<impl>())
CipherMakeImpl ==
    /\ args.call = "cipher" /\ shot.phase = "none"
    /\ shot' = Life("pimpl", cipher_impl_ctor(NoContexts), NoExc, "none")
    /\ UNCHANGED <<pimpl, last, stream, first, args>>

\* cipher::cipher, body: pimpl->setup(type); a throw leaves the constructor
\* with pimpl already constructed
CipherSetup ==
    /\ shot.phase = "pimpl"
    /\ \E r \in {setup(cipher_impl, args.type)} :
          shot' = Life(IF r.exc.thrown THEN "unwind" ELSE "alive", shot.led,
                       r.exc, "none")
    /\ UNCHANGED <<pimpl, last, stream, first, args>>

\* cipher::~cipher: the unique_ptr deletes the impl
CipherDestroy ==
    /\ shot.phase = "alive"
    /\ shot' = Life("gone", cipher_impl_dtor(shot.led), shot.exc, shot.m)
    /\ UNCHANGED <<pimpl, last, stream, first, args>>

\* crypt_engine::crypt_engine, member initialisers: block_mode_ and
\* block_size_ look the type up before cim_ is constructed; an unknown type
\* throws with no context initialised
EngineMembers(m) ==
    /\ args.call = "crypt" /\ shot.phase = "none"
    /\ shot' = IF native_info(args.type).thrown
               THEN Life("gone", NoContexts, native_info(args.type), m)
               ELSE Life("engine", cipher_impl_ctor(NoContexts), NoExc, m)
    /\ UNCHANGED <<pimpl, last, stream, first, args>>

\* crypt_engine::crypt_engine, body: setup, padding, iv, key, ECB size check
EngineBody ==
    /\ shot.phase = "engine"
    /\ \E ce \in {crypt_engine(args.type, args.pad, args.iv, args.key, shot.m,
                               args.input)} :
          shot' = Life(IF ce.exc.thrown THEN "unwind" ELSE "compute",
                       shot.led, ce.exc, shot.m)
    /\ UNCHANGED <<pimpl, last, stream, first, args>>

\* crypt_engine::compute on the constructed engine
EngineCompute(fs) ==
    /\ shot.phase = "compute"
    /\ \E ce \in {crypt_engine(args.type, args.pad, args.iv, args.key, shot.m,
                               args.input)} :
       \E r \in {compute(ce.eng, fs)} :
          shot' = Life(IF r.exc.thrown THEN "unwind" ELSE "return", shot.led,
                       r.exc, shot.m)
    /\ UNCHANGED <<pimpl, last, stream, first, args>>

\* encrypt_aead / decrypt_aead: the local cipher::impl cip
AeadLocal(m) ==
    /\ args.call = "aead" /\ shot.phase = "none"
    /\ shot' = Life("aead", cipher_impl_ctor(NoContexts), NoExc, m)
    /\ UNCHANGED <<pimpl, last, stream, first, args>>

\* the rest of encrypt_aead / decrypt_aead: a throw, the early return on an
\* authentication failure, or the normal return
AeadBody(f) ==
    /\ shot.phase = "aead"
    /\ \E r \in {IF shot.m = "enc"
                 THEN encrypt_aead(args.type, args.iv, args.key, args.ad,
                                   args.input).exc
                 ELSE decrypt_aead(args.type, args.iv, args.key, args.ad,
                                   Zeros(TagLen), args.input, f).exc} :
          shot' = Life(IF r.thrown THEN "unwind" ELSE "return", shot.led, r,
                       shot.m)
    /\ UNCHANGED <<pimpl, last, stream, first, args>>

\* an exception leaves the scope: the constructed cipher_impl (member of the
\* engine, target of pimpl, or local) is destroyed during unwinding
Unwind ==
    /\ shot.phase = "unwind"
    /\ shot' = Life("gone", cipher_impl_dtor(shot.led), shot.exc, shot.m)
    /\ UNCHANGED <<pimpl, last, stream, first, args>>

\* a return leaves the scope: the local engine or impl is destroyed
Return ==
    /\ shot.phase = "return"
    /\ shot' = Life("gone", cipher_impl_dtor(shot.led), shot.exc, shot.m)
    /\ UNCHANGED <<pimpl, last, stream, first, args>>

LifeNext ==
    \/ CipherMakeImpl
    \/ CipherSetup
    \/ CipherDestroy
    \/ \E m \in {"enc", "dec"} : EngineMembers(m)
    \/ EngineBody
    \/ \E fs \in FaultSeqs : EngineCompute(fs)
    \/ \E m \in {"enc", "dec"} : AeadLocal(m)
    \/ \E f \in {Nominal, [kind |-> "err", code |-> 1]} : AeadBody(f)
    \/ Unwind
    \/ Return

\* every owner of a primitive context, from construction to destruction
SpecLife == LifeInit /\ [][LifeNext]_vars

(***************************************************************************)
(* Output buffers.  Each operation that allocates its own output is run    *)
(* on inputs long enough for the fixed margin to be used up, with a        *)
(* primitive that writes what it nominally writes or the most a caller     *)
(* may assume.                                                             *)
(***************************************************************************)
\* the least number of blocks whose doubled length exceeds the capacity
BigBlocks == Margin \div BlockSize + 2

BoundsLens ==
    {0, 1, BlockSize, 2 * BlockSize, (BigBlocks - 1) * BlockSize,
     BigBlocks * BlockSize}

BoundsArgs ==
    [call : {"bounds"}, type : KnownTypes, pad : {"pkcs7", "none"},
     m : {"enc", "dec"}, n : BoundsLens, long : BOOLEAN]

BoundsInput(n) == Take([i \in 1..n |-> i % 4], n)

\* every primitive call of the operation writes the most, or nominally
BoundsFaults(long) ==
    [i \in 1..(BigBlocks + 1) |->
        IF long THEN [kind |-> "long", code |-> 0] ELSE Nominal]

BoundsInit ==
    /\ pimpl = cipher_impl
    /\ last = Plain("none", <<>>, NoExc)
    /\ stream = Untracked
    /\ first = Unset(FALSE)
    /\ args \in BoundsArgs
    /\ shot = NoShot

\* what an operation did to its output buffer
Extent(op, r) == [phase |-> op, exc |-> r.exc, ext |-> r.ext]

\* one-shot encrypt / decrypt: crypt_engine::compute
BoundsCompute ==
    /\ shot.phase = "none"
    /\ shot' = Extent("compute",
                      run(args.type, args.pad, IvA, K1, args.m,
                          BoundsInput(args.n), BoundsFaults(args.long)))
    /\ UNCHANGED <<pimpl, last, stream, first, args>>

\* the context the streaming operations run on: configured and started
BoundsContext ==
    start(configured(args.type, args.pad, IvA, K1, args.m).impl).impl

\* update(input) -> buffer_t
BoundsUpdate ==
    /\ shot.phase = "none"
    /\ shot' = Extent("update",
                      update(BoundsContext, BoundsInput(args.n),
                             BoundsFaults(args.long)))
    /\ UNCHANGED <<pimpl, last, stream, first, args>>

\* finish() -> buffer_t, after the input was fed
BoundsFinish ==
    /\ shot.phase = "none"
    /\ shot' = Extent("finish",
                      finish(update(BoundsContext, BoundsInput(args.n),
                                    BoundsFaults(FALSE)).impl))
    /\ UNCHANGED <<pimpl, last, stream, first, args>>

BoundsCrypt ==
    /\ shot.phase = "none"
    /\ shot' = Extent("crypt",
                      crypt(BoundsContext, BoundsInput(args.n),
                            BoundsFaults(args.long)))
    /\ UNCHANGED <<pimpl, last, stream, first, args>>

BoundsEncryptAead ==
    /\ shot.phase = "none"
    /\ shot' = Extent("encrypt_aead",
                      encrypt_aead(args.type, IvA, K1, <<>>,
                                   BoundsInput(args.n)))
    /\ UNCHANGED <<pimpl, last, stream, first, args>>

BoundsDecryptAead ==
    /\ shot.phase = "none"
    /\ shot' = Extent("decrypt_aead",
                      decrypt_aead(args.type, IvA, K1, <<>>, Zeros(TagLen),
                                   BoundsInput(args.n), Nominal))
    /\ UNCHANGED <<pimpl, last, stream, first, args>>

BoundsNext ==
    \/ BoundsCompute
    \/ BoundsUpdate
    \/ BoundsFinish
    \/ BoundsCrypt
    \/ BoundsEncryptAead
    \/ BoundsDecryptAead

\* the operations that allocate their own output
SpecBounds == BoundsInit /\ [][BoundsNext]_vars

(***************************************************************************)
(* Properties.                                                             *)
(***************************************************************************)
\* a one-shot encrypt or decrypt on an ECB type was made with an input whose
\* length is 0 or not a multiple of the block size
EcbLengthInvalid ==
    /\ args.call = "crypt" /\ shot.phase \in {"encrypt", "decrypt"}
    /\ args.type = "aes_128_ecb"
    /\ (Len(args.input) = 0 \/ Len(args.input) % BlockSize # 0)

\* the padding, IV and key of the call are ones the constructor's earlier
\* steps accept on an ECB type
EcbConfigAccepted ==
    /\ args.pad = "none"
    /\ Len(args.iv) <= MBEDTLS_MAX_IV_LENGTH
    /\ Len(args.key) = info_key_len

\* C1 (amended): a one-shot ECB call whose input length is 0 or not a
\* multiple of the block size fails during construction of the engine, makes
\* no crypt call and returns no output; the failure is the usage error when
\* the padding, IV and key are accepted, and otherwise the error of the
\* configuration step that rejected them, which runs before the length test.
C1_EcbLengthRefused ==
    EcbLengthInvalid =>
        /\ shot.r.exc.thrown
        /\ shot.r.at \in {"padding", "iv", "key", "size"}
        /\ shot.r.calls = <<>>
        /\ shot.r.output = <<>>
        /\ EcbConfigAccepted => shot.r.exc = UsageError /\ shot.r.at = "size"
        /\ ~EcbConfigAccepted => shot.r.exc.kind = "exception"

\* C1 as stated: the failure is always a usage error
C1_AlwaysUsageError ==
    EcbLengthInvalid =>
        /\ shot.r.exc = UsageError
        /\ shot.r.calls = <<>>
        /\ shot.r.output = <<>>

C1_Witness ==
    /\ EcbLengthInvalid /\ EcbConfigAccepted
    /\ Len(args.input) = BlockSize + 1
    /\ shot.r.exc = UsageError

UpdateOps == {"update", "update_at", "update_noexcept"}

\* how a call of an update overload reports code: the noexcept overload
\* returns it, the others throw it
Reports(l, code) ==
    IF l.op = "update_noexcept" THEN ~l.exc.thrown /\ l.ret = code
    ELSE l.exc = Exception(code)

\* C2: an update (any overload) of an ECB context with a chunk whose length
\* is not divisible by the block size reports FullBlockExpected, makes no
\* primitive call, and leaves the context and the output untouched.
C2_FullBlockExpectedFirst ==
    [][(/\ last'.op \in UpdateOps
        /\ block_mode(pimpl) = "ecb"
        /\ Len(last'.input) % BlockSize # 0)
       => /\ Reports(last', MBEDTLS_ERR_CIPHER_FULL_BLOCK_EXPECTED)
          /\ last'.calls = <<>>
          /\ last'.output = <<>>
          /\ pimpl' = pimpl]_vars

C2_Witness ==
    /\ last.op = "update_noexcept"
    /\ block_mode(pimpl) = "ecb"
    /\ Len(last.input) = BlockSize + 1
    /\ last.ret = MBEDTLS_ERR_CIPHER_FULL_BLOCK_EXPECTED

\* C3 as stated: in an update of an ECB context, a block for which the
\* primitive returns a non-zero code, positive or negative, is the last block
\* fed, and the update reports exactly that code.
C3_AbortOnAnyCode ==
    (last.op \in UpdateOps /\ block_mode(pimpl) = "ecb") =>
        \A i \in 1..Len(last.calls) :
            last.calls[i].ret # 0 =>
                /\ i = Len(last.calls)
                /\ Reports(last, last.calls[i].ret)

\* C4: in decrypt_aead and in the tag check that ends a streamed decryption,
\* code 0 gives true, the authentication-failed code gives false as a normal
\* return (decrypt_aead with its buffer), every other code is thrown, and
\* true is never returned on a non-zero code.
C4_TriState ==
    (shot.phase \in {"decrypt_aead", "check_tag"} /\ shot.r.called) =>
        /\ shot.r.ret = 0 => shot.r.auth /\ ~shot.r.exc.thrown
        /\ shot.r.ret = MBEDTLS_ERR_CIPHER_AUTH_FAILED =>
                /\ ~shot.r.auth /\ ~shot.r.exc.thrown
                /\ shot.phase = "decrypt_aead" =>
                        Len(shot.r.output) = Len(shot.m.text)
        /\ shot.r.ret \notin {0, MBEDTLS_ERR_CIPHER_AUTH_FAILED} =>
                shot.r.exc = Exception(shot.r.ret) /\ ~shot.r.auth
        /\ shot.r.auth => shot.r.ret = 0

C4_Witness ==
    /\ shot.phase = "decrypt_aead" /\ shot.r.called
    /\ shot.tamper = "tag" /\ ~shot.fresh
    /\ shot.r.ret = MBEDTLS_ERR_CIPHER_AUTH_FAILED
    /\ ~shot.r.auth /\ ~shot.r.exc.thrown

\* zero padding cannot tell the zeros it added from zeros that end the data
ZerosAmbiguous ==
    /\ args.type = "aes_128_cbc" /\ args.pad = "zeros"
    /\ Len(args.input) % BlockSize # 0
    /\ args.input[Len(args.input)] = 0

\* C5 (amended): when one-shot encrypt succeeds, one-shot decrypt of its
\* result with the same type, key, IV and padding returns the input, except
\* under zeros padding for an input that is not block-aligned and ends in a
\* zero byte.
C5_RoundTrip ==
    (shot.phase = "back" /\ ~ZerosAmbiguous) =>
        ~shot.r.exc.thrown /\ shot.r.output = args.input

\* C5 as stated: for every tuple
C5_RoundTripAlways ==
    shot.phase = "back" => ~shot.r.exc.thrown /\ shot.r.output = args.input

C5_Witness ==
    /\ shot.phase = "back"
    /\ args.type = "aes_128_cbc" /\ args.pad = "zeros"
    /\ Len(args.input) = BlockSize + 1
    /\ shot.r.output = args.input

\* the bytes fed by the calls of a run, and whether all were update calls
RECURSIVE FedData(_)
FedData(fed) ==
    IF fed = <<>> THEN <<>> ELSE Head(fed).data \o FedData(Tail(fed))

OnlyUpdates(fed) == \A i \in 1..Len(fed) : fed[i].op = "update"

TypeOf(mode) == CHOOSE t \in KnownTypes : info_mode(t) = mode

\* a run start(); update(..)*; finish() of an encrypting context has
\* completed
EncryptRunDone ==
    /\ stream.tracked /\ stream.done
    /\ OnlyUpdates(stream.fed)
    /\ pimpl.ctx_.op = "enc"
    /\ Len(pimpl.iv_data_) >= iv_size(pimpl)

\* one-shot encrypt with the key, IV and padding of the context
OneShotOfRun ==
    encrypt(TypeOf(block_mode(pimpl)), pimpl.ctx_.pad, pimpl.iv_data_,
            pimpl.ctx_.key, FedData(stream.fed), AllNominal)

Repeated ==
    /\ Len(pimpl.iv_data_) >= iv_size(pimpl)
    /\ first.set /\ first.runs = 1
    /\ stream.tracked /\ stream.done
    /\ stream.fed = first.fed

\* start() has just succeeded
Started == last.op = "start" /\ ~last.exc.thrown

\* the IV start() installs is the one last given to iv()
InstalledIsRemembered ==
    pimpl.ctx_.iv = mbedtls_cipher_set_iv(pimpl.ctx_, pimpl.iv_data_).ctx.iv

C8_StartIdempotent ==
    Started => ~start(pimpl).exc.thrown /\ start(pimpl).impl = pimpl

\* start() was called with partial data buffered
C8_Witness ==
    /\ Started /\ last.input # <<>>
    /\ pimpl.ctx_.unproc = <<>>
    /\ start(pimpl).impl = pimpl

RECURSIVE Written(_)
Written(calls) ==
    IF calls = <<>> THEN <<>> ELSE Head(calls).out \o Written(Tail(calls))

\* C9 as stated: a one-shot ECB call over more than one block returns the
\* bytes the primitive wrote for each block, in order and without gaps,
\* whatever length the primitive declares for a block.
C9_Concatenation ==
    (/\ args.call = "crypt" /\ shot.phase \in {"encrypt", "decrypt"}
     /\ args.type = "aes_128_ecb" /\ Len(args.input) > BlockSize
     /\ ~shot.r.exc.thrown)
        => shot.r.output = Written(shot.r.calls)

\* C10: padding(none) makes no primitive call, throws nothing and leaves
\* the context as it was; padding(m) for another m hands m to the
\* primitive's set-padding operation and reports what that returns.
C10_PaddingNone ==
    [][last'.op = "padding" =>
         IF last'.input = "none"
         THEN /\ last'.calls = <<>>
              /\ ~last'.exc.thrown
              /\ pimpl' = pimpl
         ELSE LET r == mbedtls_cipher_set_padding_mode(pimpl.ctx_, last'.input)
              IN  /\ last'.calls = <<[fn |-> "set_padding_mode",
                                      arg |-> last'.input]>>
                  /\ last'.exc = c_call_impl(r.ret)
                  /\ pimpl' = [pimpl EXCEPT !.ctx_ = r.ctx]]_vars

\* padding(none) was called while zeros padding was in effect
C10_Witness ==
    /\ last.op = "padding" /\ last.input = "none"
    /\ pimpl.ctx_.pad = "zeros"
    /\ last.calls = <<>> /\ ~last.exc.thrown

\* C11: every primitive context that is initialised is freed exactly once:
\* at no point are there more frees than inits, no owner initialises more
\* than one context, while the owner is alive its context is initialised
\* and not freed, and once the owner is gone (normal destruction, a throw
\* from the cipher constructor, from the engine constructor, from compute,
\* or a throw or return in encrypt_aead/decrypt_aead) frees equal inits
C11_FreedExactlyOnce ==
    shot.phase # "none" =>
        /\ shot.led.frees <= shot.led.inits /\ shot.led.inits <= 1
        /\ shot.phase = "gone" => shot.led.frees = shot.led.inits
        /\ shot.phase # "gone" => shot.led = [inits |-> 1, frees |-> 0]

\* a one-shot call whose engine constructor threw at the ECB size check has
\* left, with its one context freed once
C11_Witness ==
    /\ args.call = "crypt" /\ shot.phase = "gone"
    /\ shot.exc = UsageError
    /\ shot.led = [inits |-> 1, frees |-> 1]

\* C12: in one-shot encrypt/decrypt a primitive call that returns a non-zero
\* code, for the whole buffer or for block k of the ECB loop, is the last
\* call made; the exception carries that code and no output is returned
C12_StopsAtFailingCall ==
    (args.call = "crypt" /\ shot.phase \in {"encrypt", "decrypt", "back"}) =>
        \A k \in 1..Len(shot.r.calls) :
            shot.r.calls[k].ret # 0 =>
                /\ k = Len(shot.r.calls)
                /\ shot.r.exc = Exception(shot.r.calls[k].ret)
                /\ shot.r.output = <<>>

\* the second block of an ECB loop returned a positive code
C12_Witness ==
    /\ args.call = "crypt" /\ shot.phase = "encrypt"
    /\ info_mode(args.type) = "ecb"
    /\ Len(shot.r.calls) = 2
    /\ shot.r.calls[1].ret = 0 /\ shot.r.calls[2].ret = 1
    /\ shot.r.exc = Exception(1)

\* the one-shot call was given a key whose length the primitive rejects
KeyRejected ==
    /\ args.call = "crypt" /\ args.type \in KnownTypes
    /\ mbedtls_cipher_setkey(setup(cipher_impl, args.type).impl.ctx_,
                             args.key, "enc").ret # 0

\* the one-shot call was given an IV that the primitive rejects
IvRejected ==
    /\ args.call = "crypt" /\ args.type \in KnownTypes
    /\ mbedtls_cipher_set_iv(setup(cipher_impl, args.type).impl.ctx_,
                             args.iv).ret # 0

\* C13: key/IV validation precedes data processing: a one-shot encrypt or
\* decrypt with a rejected key or IV throws in the constructor steps before
\* the ECB length check and makes no crypt call; key() and iv() on a
\* context set up for the type throw at that call
C13_ValidationFirst ==
    /\ (shot.phase \in {"encrypt", "decrypt"} /\ (KeyRejected \/ IvRejected))
        => /\ shot.r.exc.thrown
           /\ shot.r.exc.kind = "exception"
           /\ shot.r.calls = <<>>
           /\ shot.r.at \in {"padding", "iv", "key"}
    /\ KeyRejected =>
          \A m \in {"enc", "dec"} :
              key(setup(cipher_impl, args.type).impl, args.key, m).exc.thrown
    /\ IvRejected =>
          iv(setup(cipher_impl, args.type).impl, args.iv).exc.thrown

\* an ECB encrypt with a rejected key and an input the length check would
\* refuse fails at the key
C13_Witness ==
    /\ shot.phase = "encrypt" /\ KeyRejected /\ ~IvRejected
    /\ info_mode(args.type) = "ecb" /\ Len(args.input) % BlockSize # 0
    /\ shot.r.at = "key" /\ shot.r.calls = <<>>
    /\ shot.r.exc = Exception(MBEDTLS_ERR_CIPHER_BAD_INPUT_DATA)

\* C14: a successful ECB streaming update (any overload) over a chunk of N
\* blocks makes exactly N primitive update calls, call i on block i alone,
\* in order; each call's output lands directly after the previous call's
\* output, and the produced length is the sum of the declared lengths
C14_OneCallPerBlock ==
    (/\ last.op \in UpdateOps
     /\ block_mode(pimpl) = "ecb"
     /\ ~last.exc.thrown /\ last.ret = 0)
    => /\ Len(last.input) % BlockSize = 0
       /\ Len(last.calls) = Len(last.input) \div BlockSize
       /\ \A i \in 1..Len(last.calls) :
             /\ last.calls[i].fn = "update"
             /\ last.calls[i].input =
                    SubSeq(last.input, (i - 1) * BlockSize + 1, i * BlockSize)
       /\ last.output = Written(last.calls)
       /\ Len(last.output) =
              SumSeq([i \in 1..Len(last.calls) |-> Len(last.calls[i].out)])

\* a two-block update whose first call declared less than a block
C14_Witness ==
    /\ last.op = "update" /\ block_mode(pimpl) = "ecb"
    /\ ~last.exc.thrown
    /\ Len(last.calls) = 2
    /\ Len(last.calls[1].out) < BlockSize
    /\ Len(last.calls[2].out) = BlockSize
    /\ Len(last.output) = 2 * BlockSize - 1

\* C15 as stated: the IV remembered for start() is the last IV the primitive
\* accepted: an iv() call that succeeds makes its argument the remembered
\* IV, and every other call, an iv() that throws included, leaves the
\* remembered IV as it was.
C15_RememberedIsAccepted ==
    [][pimpl'.iv_data_ =
           IF last'.op = "iv" /\ ~last'.exc.thrown THEN last'.input
           ELSE pimpl.iv_data_]_vars

\* C16 as stated: on a configured context crypt(input) is start(),
\* update(input), finish(): both succeed with the same bytes or both fail
\* with the same error, for every block mode, ECB included.
C16_CryptIsStartUpdateFinish ==
    shot.phase = "crypt" =>
        /\ shot.r.exc = shot.steps.exc
        /\ shot.r.output = shot.steps.output

\* the primitive declared the most for the single-block calls of an ECB
\* loop: the streaming update, or the one-shot loop over several blocks
EcbLoopLong ==
    /\ args.long /\ info_mode(args.type) = "ecb"
    /\ \/ shot.phase = "update"
       \/ shot.phase = "compute" /\ args.n > BlockSize

\* every write position and the final length stay within the capacity
WithinCapacity ==
    /\ shot.ext.hi <= shot.ext.cap
    /\ shot.ext.size <= shot.ext.cap

\* C17 (amended): in every operation that allocates its own output, every
\* write position and the final length stay within the allocated capacity,
\* when each primitive call writes at most its input length plus one block
\* and each single-block call of an ECB loop writes at most one block.
C17_WithinCapacity ==
    (shot.phase # "none" /\ ~EcbLoopLong) => WithinCapacity

\* C17 as stated: whenever each primitive call writes at most its input
\* length plus one block
C17_AlwaysWithinCapacity ==
    shot.phase # "none" => WithinCapacity

\* a CBC crypt() whose update wrote its input length plus one block and
\* whose finish wrote one more block after it
C17_Witness ==
    /\ shot.phase = "crypt" /\ args.long /\ info_mode(args.type) = "cbc"
    /\ args.n = BigBlocks * BlockSize
    /\ ~shot.exc.thrown
    /\ shot.ext.hi = args.n + 2 * BlockSize
    /\ shot.ext.size = shot.ext.hi
    /\ shot.ext.hi <= shot.ext.cap

=============================================================================
